---- MODULE Spec2Model ----
(***************************************************************************)
(* A model of the Discord timestamp bot of src/main.py: the two commands   *)
(* (the text command mestamp and the slash command timestamp), the replies *)
(* they send, and the callbacks of the controls those replies carry.       *)
(*                                                                         *)
(* Text is a sequence of one-character strings.  datetime.strptime, the    *)
(* datetime arithmetic behind datetime.timestamp() and str.format are      *)
(* modelled by what CPython 3.11 does for the two format strings the       *)
(* program uses.                                                           *)
(*                                                                         *)
(* An integer number of seconds since the epoch does not fit TLC's 32-bit  *)
(* integers for the years 1..9999, so it is kept as the pair               *)
(* [days, secs] with 0 <= secs < 86400, standing for days*86400 + secs.    *)
(***************************************************************************)
EXTENDS Integers, Sequences, FiniteSets, TLC

VARIABLES
    messages,      \* the replies sent so far, in the order they were sent
    now,           \* the wall clock, datetime.now(tz=timezone.utc)
    pads_year,     \* whether the platform's strftime zero-pads %Y to 4 digits
    cmd_text,      \* SpecParse: the text handed to mestamp
    cmd_args,      \* SpecParse: the arguments handed to timestamp, or NoArgs
    done           \* SpecParse: the commands that have run

vars == <<messages, now, pads_year, cmd_text, cmd_args, done>>

(***************************************************************************)
(* Characters and text.                                                    *)
(***************************************************************************)
DigitChars == <<"0", "1", "2", "3", "4", "5", "6", "7", "8", "9">>

Digit == {DigitChars[i] : i \in 1..10}

Whitespace == {" ", "\t"}

DigitVal(c) == (CHOOSE i \in 1..10 : DigitChars[i] = c) - 1

\* The character of s at index p, or "" past its end.
At(s, p) == IF p >= 1 /\ p <= Len(s) THEN s[p] ELSE ""

\* s[a..b-1] in the model's 1-based indices (Python's s[a-1:b-1]).
Slice(s, a, b) == SubSeq(s, a, b - 1)

\* int() of a run of digits, possibly preceded by blanks (int(" 5") = 5).
RECURSIVE IntOf(_)
IntOf(s) ==
    IF s = <<>> THEN 0
    ELSE IF s[Len(s)] \in Whitespace THEN IntOf(SubSeq(s, 1, Len(s) - 1))
    ELSE IntOf(SubSeq(s, 1, Len(s) - 1)) * 10 + DigitVal(s[Len(s)])

IsDigits(s) == \A i \in 1..Len(s) : s[i] \in Digit

\* str.strip(): leading and trailing whitespace removed.
RECURSIVE lstrip(_)
lstrip(s) == IF s # <<>> /\ s[1] \in Whitespace THEN lstrip(Tail(s)) ELSE s

RECURSIVE rstrip(_)
rstrip(s) ==
    IF s # <<>> /\ s[Len(s)] \in Whitespace
    THEN rstrip(SubSeq(s, 1, Len(s) - 1))
    ELSE s

strip(s) == rstrip(lstrip(s))

\* The decimal digits of n >= 0.
RECURSIVE Decimal(_)
Decimal(n) ==
    IF n < 10 THEN <<DigitChars[n + 1]>>
    ELSE Decimal(n \div 10) \o <<DigitChars[(n % 10) + 1]>>

RECURSIVE Zeros(_)
Zeros(k) == IF k <= 0 THEN <<>> ELSE <<"0">> \o Zeros(k - 1)

\* f'{n:0w}': zero-padded to width w, the sign counted in the width.
ZeroPad(n, w) ==
    IF n >= 0
    THEN Zeros(w - Len(Decimal(n))) \o Decimal(n)
    ELSE <<"-">> \o Zeros(w - 1 - Len(Decimal(-n))) \o Decimal(-n)

(***************************************************************************)
(* datetime.strptime: the regular expression _strptime compiles from a     *)
(* format, matched with backtracking in the order of its alternatives.     *)
(* A format is the sequence of its directives and literal characters.      *)
(***************************************************************************)
FORMAT_NAIVE == <<"%Y", "/", "%m", "/", "%d", " ", "%H", ":", "%M">>

FORMAT_OFFSET == FORMAT_NAIVE \o <<"%z">>

In(s, p, set) == At(s, p) \in set

One(cond, end) == IF cond THEN <<end>> ELSE <<>>

\* The length of the run of whitespace of s that starts at p.
RECURSIVE SpaceRun(_, _)
SpaceRun(s, p) == IF In(s, p, Whitespace) THEN 1 + SpaceRun(s, p + 1) ELSE 0

\* p+n, p+n-1, ..., p+1: a greedy \s+ gives back one character at a time.
RECURSIVE Downto(_, _)
Downto(p, n) == IF n <= 0 THEN <<>> ELSE <<p + n>> \o Downto(p, n - 1)

\* (\.\d{1,6})? after position p: the ends with 6, 5, ..., 1 digits, then none.
RECURSIVE FracEnds(_, _, _)
FracEnds(s, p, k) ==
    IF k = 0 THEN <<>>
    ELSE One(At(s, p) = "." /\ \A i \in 1..k : In(s, p + i, Digit), p + k + 1)
         \o FracEnds(s, p, k - 1)

\* (:?[0-5]\d(\.\d{1,6})?)? after position p.
SecondsEnds(s, p) ==
    LET q == IF At(s, p) = ":" THEN p + 1 ELSE p
        ok == In(s, q, {"0", "1", "2", "3", "4", "5"}) /\ In(s, q + 1, Digit)
    IN  (IF ok THEN FracEnds(s, q + 2, 6) \o <<q + 2>> ELSE <<>>) \o <<p>>

\* [+-]\d\d:?[0-5]\d(:?[0-5]\d(\.\d{1,6})?)?|(?-i:Z)
OffsetEnds(s, p) ==
    LET q == IF At(s, p + 3) = ":" THEN p + 4 ELSE p + 3
        ok == /\ In(s, p, {"+", "-"})
              /\ In(s, p + 1, Digit) /\ In(s, p + 2, Digit)
              /\ In(s, q, {"0", "1", "2", "3", "4", "5"}) /\ In(s, q + 1, Digit)
    IN  (IF ok THEN SecondsEnds(s, q + 2) ELSE <<>>)
        \o One(At(s, p) = "Z", p + 1)

\* The positions at which a match of directive tok starting at p may end, in the
\* order the regular expression tries them.
Ends(tok, s, p) ==
    CASE tok = "%Y" ->   \* \d\d\d\d
            One(\A i \in 0..3 : In(s, p + i, Digit), p + 4)
      [] tok = "%m" ->   \* 1[0-2]|0[1-9]|[1-9]
            One(At(s, p) = "1" /\ In(s, p + 1, {"0", "1", "2"}), p + 2)
            \o One(At(s, p) = "0" /\ In(s, p + 1, Digit \ {"0"}), p + 2)
            \o One(In(s, p, Digit \ {"0"}), p + 1)
      [] tok = "%d" ->   \* 3[0-1]|[1-2]\d|0[1-9]|[1-9]| [1-9]
            One(At(s, p) = "3" /\ In(s, p + 1, {"0", "1"}), p + 2)
            \o One(In(s, p, {"1", "2"}) /\ In(s, p + 1, Digit), p + 2)
            \o One(At(s, p) = "0" /\ In(s, p + 1, Digit \ {"0"}), p + 2)
            \o One(In(s, p, Digit \ {"0"}), p + 1)
            \o One(At(s, p) = " " /\ In(s, p + 1, Digit \ {"0"}), p + 2)
      [] tok = "%H" ->   \* 2[0-3]|[0-1]\d|\d
            One(At(s, p) = "2" /\ In(s, p + 1, {"0", "1", "2", "3"}), p + 2)
            \o One(In(s, p, {"0", "1"}) /\ In(s, p + 1, Digit), p + 2)
            \o One(In(s, p, Digit), p + 1)
      [] tok = "%M" ->   \* [0-5]\d|\d
            One(In(s, p, {"0", "1", "2", "3", "4", "5"}) /\ In(s, p + 1, Digit), p + 2)
            \o One(In(s, p, Digit), p + 1)
      [] tok = "%z" -> OffsetEnds(s, p)
      [] tok = " " ->    \* whitespace in a format becomes \s+
            Downto(p, SpaceRun(s, p))
      [] OTHER -> One(At(s, p) = tok, p + 1)

NoMatch == [found |-> FALSE]

\* format_regex.match(data_string): the first way, in the regular expression's
\* order, to match fmt[k..] from position p; groups maps each directive to the
\* text it matched.
RECURSIVE Match(_, _, _, _, _)
RECURSIVE TryEnds(_, _, _, _, _, _, _)
Match(fmt, k, s, p, groups) ==
    IF k > Len(fmt) THEN [found |-> TRUE, end |-> p, groups |-> groups]
    ELSE TryEnds(fmt, k, s, p, groups, Ends(fmt[k], s, p), 1)

TryEnds(fmt, k, s, p, groups, ends, j) ==
    IF j > Len(ends) THEN NoMatch
    ELSE LET r == Match(fmt, k + 1, s, ends[j],
                        groups @@ (fmt[k] :> Slice(s, p, ends[j])))
         IN  IF r.found THEN r ELSE TryEnds(fmt, k, s, p, groups, ends, j + 1)

ValueError == [ok |-> FALSE]

\* _strptime's conversion of the %z group: gmtoff in seconds and gmtoff_fraction
\* in microseconds, or ValueError.
ParseOffset(z0) ==
    IF z0 = <<"Z">> THEN [ok |-> TRUE, gmtoff |-> 0, gmtoff_fraction |-> 0]
    ELSE
    LET colon1 == At(z0, 4) = ":"
        z1 == IF colon1 THEN Slice(z0, 1, 4) \o Slice(z0, 5, Len(z0) + 1) ELSE z0
        bad == colon1 /\ Len(z1) > 5 /\ z1[6] # ":"
        z == IF colon1 /\ Len(z1) > 5 /\ ~bad
             THEN Slice(z1, 1, 6) \o Slice(z1, 7, Len(z1) + 1)
             ELSE z1
        secs == Slice(z, 6, IF Len(z) >= 7 THEN 8 ELSE Len(z) + 1)
        rem == IF Len(z) >= 9 THEN Slice(z, 9, Len(z) + 1) ELSE <<>>
        sign == IF z[1] = "-" THEN -1 ELSE 1
    IN  IF bad \/ ~IsDigits(secs) THEN ValueError
        ELSE [ok |-> TRUE,
              gmtoff |-> sign * (IntOf(Slice(z, 2, 4)) * 3600
                                 + IntOf(Slice(z, 4, 6)) * 60 + IntOf(secs)),
              gmtoff_fraction |-> sign * IntOf(rem \o Zeros(6 - Len(rem)))]

(***************************************************************************)
(* The proleptic Gregorian calendar of the datetime module.                *)
(***************************************************************************)
is_leap(year) == year % 4 = 0 /\ (year % 100 # 0 \/ year % 400 = 0)

DAYS_IN_MONTH == <<31, 28, 31, 30, 31, 30, 31, 31, 30, 31, 30, 31>>

days_in_month(year, month) ==
    IF month = 2 /\ is_leap(year) THEN 29 ELSE DAYS_IN_MONTH[month]

RECURSIVE days_before_month(_, _)
days_before_month(year, month) ==
    IF month = 1 THEN 0
    ELSE days_before_month(year, month - 1) + days_in_month(year, month - 1)

days_before_year(year) ==
    LET y == year - 1
    IN  y * 365 + (y \div 4) - (y \div 100) + (y \div 400)

\* date.toordinal(): 1 for 0001-01-01.
ymd2ord(year, month, day) ==
    days_before_year(year) + days_before_month(year, month) + day

\* datetime(...) and timezone(...) raise ValueError outside these ranges.
valid_date(year, month, day) ==
    /\ year >= 1 /\ year <= 9999
    /\ month >= 1 /\ month <= 12
    /\ day >= 1 /\ day <= days_in_month(year, month)

valid_offset(gmtoff) == gmtoff > -86400 /\ gmtoff < 86400

(***************************************************************************)
(* datetime.strptime(data_string, format), with tzinfo None for a format   *)
(* without %z.                                                             *)
(***************************************************************************)
NoTz == [set |-> FALSE, seconds |-> 0, microseconds |-> 0]

Utc == [set |-> TRUE, seconds |-> 0, microseconds |-> 0]

strptime(data_string, format) ==
    LET m == Match(format, 1, data_string, 1, <<>>)
    IN  IF ~m.found THEN ValueError
        ELSE IF m.end # Len(data_string) + 1 THEN ValueError
        ELSE
        LET g == m.groups
            year == IntOf(g["%Y"])
            month == IntOf(g["%m"])
            day == IntOf(g["%d"])
            off == IF "%z" \in DOMAIN g THEN ParseOffset(g["%z"])
                   ELSE [ok |-> TRUE, gmtoff |-> 0, gmtoff_fraction |-> 0]
        IN  IF ~off.ok THEN ValueError
            ELSE IF ~valid_date(year, month, day) THEN ValueError
            ELSE IF ~valid_offset(off.gmtoff) THEN ValueError
            ELSE [ok |-> TRUE,
                  value |-> [year |-> year, month |-> month, day |-> day,
                             hour |-> IntOf(g["%H"]), minute |-> IntOf(g["%M"]),
                             second |-> 0,
                             tzinfo |-> IF "%z" \in DOMAIN g
                                        THEN [set |-> TRUE, seconds |-> off.gmtoff,
                                              microseconds |-> off.gmtoff_fraction]
                                        ELSE NoTz]]

\* The slip of calling replace() and dropping its result: the datetime stays
\* naive.
replace_tzinfo_discarded(time_obj) == time_obj

\* time_obj.replace(tzinfo=timezone.utc)
replace_tzinfo_utc(time_obj) == [time_obj EXCEPT !.tzinfo = Utc]

(***************************************************************************)
(* timedelta and datetime.timestamp().                                     *)
(***************************************************************************)
\* timedelta(days, seconds, microseconds), normalised as the datetime module
\* keeps it: 0 <= seconds < 86400 and 0 <= microseconds < 1000000.
timedelta(days, seconds, microseconds) ==
    LET s == seconds + (microseconds \div 1000000)
    IN  [days |-> days + (s \div 86400),
         seconds |-> s % 86400,
         microseconds |-> microseconds % 1000000]

td_sub(a, b) ==
    timedelta(a.days - b.days, a.seconds - b.seconds,
              a.microseconds - b.microseconds)

td_neg(a) == timedelta(-a.days, -a.seconds, -a.microseconds)

td_abs(a) == IF a.days < 0 THEN td_neg(a) ELSE a

\* self - _EPOCH for an aware datetime: both sides are taken to UTC.
minus_offset(local, off) == local - off

minus_epoch(time_obj) ==
    timedelta(ymd2ord(time_obj.year, time_obj.month, time_obj.day)
                  - ymd2ord(1970, 1, 1),
              minus_offset(time_obj.hour * 3600 + time_obj.minute * 60
                               + time_obj.second,
                           time_obj.tzinfo.seconds),
              -time_obj.tzinfo.microseconds)

\* total_seconds() is a double.  From 2^34 seconds on a double cannot tell a
\* value that lies a few microseconds below a whole second from that second:
\* below 2^e seconds (e = 35, 36, 37, 38) up to 2^(e-34) - 1 microseconds are
\* lost.  Each row is 2^e as days and seconds, and the margin from there on.
DOUBLE_MARGINS ==
    << [days |-> 198841, seconds |-> 6784, margin |-> 1],
       [days |-> 397682, seconds |-> 13568, margin |-> 3],
       [days |-> 795364, seconds |-> 27136, margin |-> 7],
       [days |-> 1590728, seconds |-> 54272, margin |-> 15] >>

round_margin(a) ==
    LET reached == {k \in 1..Len(DOUBLE_MARGINS) :
                        \/ a.days > DOUBLE_MARGINS[k].days
                        \/ /\ a.days = DOUBLE_MARGINS[k].days
                           /\ a.seconds >= DOUBLE_MARGINS[k].seconds}
    IN  IF reached = {} THEN 0
        ELSE DOUBLE_MARGINS[CHOOSE k \in reached : \A j \in reached : j <= k].margin

\* int(time_obj.timestamp()): total_seconds(), a double, truncated towards
\* zero.  The result is the integer days*86400 + secs.
int_timestamp(time_obj) ==
    LET d == minus_epoch(time_obj)
        a == td_abs(d)
        up == IF a.microseconds > 0
                 /\ 1000000 - a.microseconds <= round_margin(a)
              THEN 1 ELSE 0
        mag == timedelta(a.days, a.seconds + up, 0)
        t == IF d.days < 0 THEN td_neg(mag) ELSE mag
    IN  [days |-> t.days, secs |-> t.seconds]

\* f'{epoch_time}': the decimal text of days*86400 + secs, computed in two
\* limbs of five decimal digits.
int_str(e) ==
    LET neg == e.days < 0
        a == IF ~neg THEN e
             ELSE IF e.secs = 0 THEN [days |-> -e.days, secs |-> 0]
             ELSE [days |-> -e.days - 1, secs |-> 86400 - e.secs]
        low0 == (a.days % 1000) * 86400 + a.secs
        high == (a.days \div 1000) * 864 + (low0 \div 100000)
        low == low0 % 100000
        digits == IF high = 0 THEN Decimal(low)
                  ELSE Decimal(high) \o ZeroPad(low, 5)
    IN  IF neg THEN <<"-">> \o digits ELSE digits

(***************************************************************************)
(* The format templates and str.format on a datetime (strftime).           *)
(***************************************************************************)
\* A dict keeps insertion order: the templates in the order of the source.
TIME_FORMAT_TEMPLATES ==
    << [template |-> <<"%H", ":", "%M">>, format_key |-> "t"],
       [template |-> <<"%d", "/", "%m", "/", "%Y">>, format_key |-> "d"],
       [template |-> <<"%d", " ", "%B", " ", "%Y">>, format_key |-> "D"],
       [template |-> <<"%d", " ", "%B", " ", "%Y", " ", "%H", ":", "%M">>,
        format_key |-> "f"],
       [template |-> <<"%A", ",", " ", "%d", " ", "%B", " ", "%Y", " ",
                       "%H", ":", "%M">>,
        format_key |-> "F"] >>

\* Month and weekday names are kept as whole words.
MonthNames ==
    <<"January", "February", "March", "April", "May", "June", "July",
      "August", "September", "October", "November", "December">>

DayNames ==
    <<"Monday", "Tuesday", "Wednesday", "Thursday", "Friday", "Saturday",
      "Sunday">>

weekday(time_obj) ==
    (ymd2ord(time_obj.year, time_obj.month, time_obj.day) + 6) % 7

\* One directive of strftime.  %Y is zero-padded to four digits or not,
\* depending on the platform's C library.
Directive(tok, time_obj, pad) ==
    CASE tok = "%H" -> ZeroPad(time_obj.hour, 2)
      [] tok = "%M" -> ZeroPad(time_obj.minute, 2)
      [] tok = "%d" -> ZeroPad(time_obj.day, 2)
      [] tok = "%m" -> ZeroPad(time_obj.month, 2)
      [] tok = "%Y" -> IF pad THEN ZeroPad(time_obj.year, 4)
                       ELSE Decimal(time_obj.year)
      [] tok = "%B" -> <<MonthNames[time_obj.month]>>
      [] tok = "%A" -> <<DayNames[weekday(time_obj) + 1]>>
      [] OTHER -> <<tok>>

RECURSIVE template_format(_, _, _)
template_format(template, time_obj, pad) ==
    IF template = <<>> THEN <<>>
    ELSE Directive(Head(template), time_obj, pad)
         \o template_format(Tail(template), time_obj, pad)

(***************************************************************************)
(* create_relative_label: humanize.naturaltime of now - user_datetime.     *)
(***************************************************************************)
intcomma(n) ==
    IF n < 1000 THEN Decimal(n)
    ELSE Decimal(n \div 1000) \o <<",">> \o ZeroPad(n % 1000, 3)

Count(n, unit) == Decimal(n) \o <<" ", unit>>

naturaldelta(delta) ==
    LET d == td_abs(delta)
        years == d.days \div 365
        days == d.days % 365
        num_months == (2 * days) \div 61     \* int(days // 30.5)
    IN  IF years = 0 /\ days < 1 THEN
            CASE d.seconds = 0 -> <<"a moment">>
              [] d.seconds = 1 -> <<"a second">>
              [] d.seconds > 1 /\ d.seconds < 60 -> Count(d.seconds, "seconds")
              [] d.seconds >= 60 /\ d.seconds < 120 -> <<"a minute">>
              [] d.seconds >= 120 /\ d.seconds < 3600 ->
                    Count(d.seconds \div 60, "minutes")
              [] d.seconds >= 3600 /\ d.seconds < 7200 -> <<"an hour">>
              [] OTHER -> Count(d.seconds \div 3600, "hours")
        ELSE IF years = 0 THEN
            CASE days = 1 -> <<"a day">>
              [] days # 1 /\ num_months = 0 -> Count(days, "days")
              [] days # 1 /\ num_months = 1 -> <<"a month">>
              [] OTHER -> Count(num_months, "months")
        ELSE IF years = 1 THEN
            CASE num_months = 0 /\ days = 0 -> <<"a year">>
              [] num_months = 0 /\ days = 1 -> <<"1 year, 1 day">>
              [] num_months = 0 /\ days > 1 ->
                    <<"1 year, ">> \o Count(days, "days")
              [] num_months = 1 -> <<"1 year, 1 month">>
              [] OTHER -> <<"1 year, ">> \o Count(num_months, "months")
        ELSE intcomma(years) \o <<" ", "years">>

naturaltime(delta) ==
    LET future == delta.days < 0
        text == naturaldelta(delta)
    IN  IF text = <<"a moment">> THEN <<"now">>
        ELSE text \o <<IF future THEN " from now" ELSE " ago">>

create_relative_label(user_datetime, clock) ==
    naturaltime(td_sub(clock, minus_epoch(user_datetime)))

(***************************************************************************)
(* The replies.  A message is what one send_message or reply call sends:   *)
(* its text, its embed and the items of its view.  interaction is the      *)
(* invocation or the component interaction it answers.                     *)
(***************************************************************************)
NoArgs == [year |-> 0, month |-> 0, day |-> 0, hour |-> 0, minutes |-> 0,
           offset |-> <<>>, given |-> FALSE]

\* A Context of the text command.
Context(user_datetime) ==
    [type |-> "mestamp", message |-> 0, user_datetime |-> user_datetime,
     args |-> NoArgs, values |-> <<>>]

\* An Interaction of the slash command.
SlashInteraction(args) ==
    [type |-> "timestamp", message |-> 0, user_datetime |-> <<>>,
     args |-> args, values |-> <<>>]

\* An Interaction of a component of message i; values is what a dropdown
\* hands over.
ComponentInteraction(type, i, values) ==
    [type |-> type, message |-> i, user_datetime |-> <<>>, args |-> NoArgs,
     values |-> values]

NoEmbed == [title |-> <<>>, description |-> <<>>, fields |-> <<>>]

\* The slip of swapping the two fields of the literal.
discord_stamp_swapped(epoch_time, format_key) ==
    <<"<", "t", ":", format_key, ":">> \o int_str(epoch_time) \o <<">">>

\* f'<t:{epoch_time}:{format_key}>'
discord_stamp(epoch_time, format_key) ==
    <<"<", "t", ":">> \o int_str(epoch_time) \o <<":", format_key, ">">>

\* '\\' followed by the stamp: the backslash keeps Discord from rendering it.
escaped(stamp) == <<"\\">> \o stamp

show_all_button(time_obj) ==
    [type |-> "button", label |-> "Show All!",
     epoch_time |-> int_timestamp(time_obj)]

timezone_guide_button ==
    [type |-> "link", label |-> "Find out your timezone offset",
     url |-> "https://en.wikipedia.org/wiki/List_of_tz_database_time_zones"]

SelectOption(label, value) == [label |-> label, value |-> value]

\* The slip of labelling every option with the relative label.
fixed_label_at_clock(k, time_obj, clock, pad) ==
    create_relative_label(time_obj, clock)

\* The label of the k-th template for time_obj.
fixed_label(k, time_obj, clock, pad) ==
    template_format(TIME_FORMAT_TEMPLATES[k].template, time_obj, pad)

\* TimestampDropdown.__init__
TimestampDropdown(time_obj, utc_offset_used, clock, pad) ==
    [type |-> "select",
     time_obj |-> time_obj,
     utc_offset_used |-> utc_offset_used,
     epoch_time |-> int_timestamp(time_obj),
     options |->
        [k \in 1..Len(TIME_FORMAT_TEMPLATES) |->
            SelectOption(fixed_label(k, time_obj, clock, pad),
                         TIME_FORMAT_TEMPLATES[k].format_key)]
        \o <<SelectOption(create_relative_label(time_obj, clock), "R")>>,
     placeholder |-> "Or choose a specific format for your timestamp",
     min_values |-> 1, max_values |-> 1]

\* The slip of handing the dropdown on to the single-format reply.
callback_view_with_dropdown(self) ==
    <<show_all_button(self.time_obj), self, timezone_guide_button>>

\* The view the single-format reply carries.
callback_view(self) == <<show_all_button(self.time_obj), timezone_guide_button>>

\* TimestampDropdown.callback
TimestampDropdown_callback(self, interaction) ==
    LET user_format_choice == interaction.values[1]
        final_timestamp == discord_stamp(self.epoch_time, user_format_choice)
        warning_msg ==
            IF self.utc_offset_used
            THEN "make sure your UTC offset (+-HHMM *note no colon*) is correct. "
            ELSE "make sure HH:MM is in UTC or you include a UTC offset (+-HHMM *note no colon*) ."
    IN  [kind |-> "single",
         interaction |-> interaction,
         content |-> <<>>,
         embed |->
            [title |-> <<"For *__you__*, this timestamp will display as", "\n">>
                       \o final_timestamp
                       \o <<"\n", "It will be localised for everyone else!">>,
             description |->
                 <<"***On mobile**, long press the date/time string above to copy the format code shown below.*", "\n">>
                 \o escaped(final_timestamp),
             fields |-> << [name |-> <<"warning sign">>,
                            value |-> <<"If the displayed timestamp looks wrong, ",
                                        warning_msg>>] >>],
         view |-> callback_view(self),
         ephemeral |-> TRUE]

\* The slip of leaving the relative style out of the list.
format_keys_without_relative ==
    [k \in 1..Len(TIME_FORMAT_TEMPLATES) |-> TIME_FORMAT_TEMPLATES[k].format_key]

\* list(TIME_FORMAT_TEMPLATES.values()) + ['R']
full_format_key_list ==
    [k \in 1..Len(TIME_FORMAT_TEMPLATES) |-> TIME_FORMAT_TEMPLATES[k].format_key]
    \o <<"R">>

\* One inline field of the show-all embed.
all_field(epoch_time, format_key) ==
    [name |-> discord_stamp(epoch_time, format_key),
     value |-> escaped(discord_stamp(epoch_time, format_key))]

send_all_timestamps_embed(interaction, epoch_time) ==
    [kind |-> "all",
     interaction |-> interaction,
     content |-> <<>>,
     embed |->
        [title |-> <<"All the timestamp options!">>,
         description |->
             <<"Too much choice can only be a good thing, right?", "\n",
               "***On mobile**, long press the date/time string to copy the format code shown below.*">>,
         fields |-> [k \in 1..Len(full_format_key_list) |->
                        all_field(epoch_time, full_format_key_list[k])]],
     view |-> <<>>,
     ephemeral |-> TRUE]

\* show_all_button_callback: the button's lambda hands over the epoch_time
\* captured when the button was made.
show_all_button_callback(button, interaction) ==
    send_all_timestamps_embed(interaction, button.epoch_time)

send_success_response(repliable, time_obj, utc_offset_used, clock, pad) ==
    [kind |-> "selection",
     interaction |-> repliable,
     content |-> <<"Your date passed the reality test!", "\n",
                   "*NB: The final numbers and format may differ slightly from those shown in the dropdown*">>,
     embed |-> NoEmbed,
     view |-> <<show_all_button(time_obj),
                TimestampDropdown(time_obj, utc_offset_used, clock, pad)>>,
     ephemeral |-> TRUE]

error_with_time_values(repliable) ==
    [kind |-> "error",
     interaction |-> repliable,
     content |-> <<>>,
     embed |->
        [title |-> <<"That date did not seem to work out :/">>,
         description |->
             <<"Make sure your input date+time is in the format YYYY/MM/DD HH:MM[+-HHMM] and is actually a date that exists!", "\n",
               "e.g. 2021/08/21 22:05, 2021/08/22 00:05+0200, 2021/08/21 18:35-0330", "\n",
               "Do not forget: either HH:MM is in UTC or you have included a UTC-offset, +-HHMM (*note no colon*)!">>,
         fields |-> <<>>],
     view |-> <<timezone_guide_button>>,
     ephemeral |-> TRUE]

(***************************************************************************)
(* The two commands.                                                       *)
(***************************************************************************)
\* The slip of pinning the datetime to UTC after either parse.
mestamp_parse_utc_always(user_datetime) ==
    LET with_offset == strptime(strip(user_datetime), FORMAT_OFFSET)
        without == strptime(strip(user_datetime), FORMAT_NAIVE)
    IN  IF with_offset.ok
        THEN [ok |-> TRUE, time_obj |-> replace_tzinfo_utc(with_offset.value),
              utc_offset_used |-> TRUE]
        ELSE IF without.ok
        THEN [ok |-> TRUE, time_obj |-> replace_tzinfo_utc(without.value),
              utc_offset_used |-> FALSE]
        ELSE [ok |-> FALSE]

\* The result of the try/except ladder of mestamp: the aware datetime and
\* utc_offset_used, or no datetime.
mestamp_parse(user_datetime) ==
    LET with_offset == strptime(strip(user_datetime), FORMAT_OFFSET)
        without == strptime(strip(user_datetime), FORMAT_NAIVE)
    IN  IF with_offset.ok
        THEN [ok |-> TRUE, time_obj |-> with_offset.value, utc_offset_used |-> TRUE]
        ELSE IF without.ok
        THEN [ok |-> TRUE, time_obj |-> replace_tzinfo_utc(without.value),
              utc_offset_used |-> FALSE]
        ELSE [ok |-> FALSE]

mestamp(ctx, user_datetime, clock, pad) ==
    LET r == mestamp_parse(user_datetime)
    IN  IF r.ok
        THEN send_success_response(ctx, r.time_obj, r.utc_offset_used, clock, pad)
        ELSE error_with_time_values(ctx)

\* f'{year:04}/{month:02}/{day:02} {hour:02}:{minutes:02}'
constructed_date_str(a) ==
    ZeroPad(a.year, 4) \o <<"/">> \o ZeroPad(a.month, 2) \o <<"/">>
    \o ZeroPad(a.day, 2) \o <<" ">> \o ZeroPad(a.hour, 2) \o <<":">>
    \o ZeroPad(a.minutes, 2)

timestamp_parse(a) ==
    LET utc_offset_used == a.offset # <<>>
        date_str == IF utc_offset_used
                    THEN constructed_date_str(a) \o a.offset
                    ELSE constructed_date_str(a)
        strp_str == IF utc_offset_used THEN FORMAT_NAIVE \o <<"%z">>
                    ELSE FORMAT_NAIVE
        r == strptime(date_str, strp_str)
    IN  IF ~r.ok THEN [ok |-> FALSE]
        ELSE [ok |-> TRUE,
              time_obj |-> IF utc_offset_used THEN r.value
                           ELSE replace_tzinfo_utc(r.value),
              utc_offset_used |-> utc_offset_used]

timestamp(interaction, a, clock, pad) ==
    LET r == timestamp_parse(a)
    IN  IF r.ok
        THEN send_success_response(interaction, r.time_obj, r.utc_offset_used,
                                   clock, pad)
        ELSE error_with_time_values(interaction)

(***************************************************************************)
(* The inputs.                                                             *)
(***************************************************************************)
MaxMessages == 3

MaxTicks == 1

\* The clock starts at 2021/08/21 09:00:00 UTC and a tick is 25 minutes.
Clock0 ==
    minus_epoch([year |-> 2021, month |-> 8, day |-> 21, hour |-> 9,
                 minute |-> 0, second |-> 0, tzinfo |-> Utc])

TickSeconds == 25 * 60

Args(year, month, day, hour, minutes, offset) ==
    [year |-> year, month |-> month, day |-> day, hour |-> hour,
     minutes |-> minutes, offset |-> offset, given |-> TRUE]

\* What the users of the interaction model type.
SampleTexts ==
    { <<"2", "0", "2", "1", "/", "0", "8", "/", "2", "1", " ", "0", "9", ":", "5", "5", "+", "0", "1", "0", "0">>,
      <<"2", "0", "2", "1", "/", "0", "8", "/", "2", "1", " ", "0", "8", ":", "5", "5">>,
      <<"2", "0", "2", "1", "/", "1", "3", "/", "0", "1", " ", "1", "0", ":", "0", "0">> }

SampleArgs == { Args(2021, 8, 21, 22, 5, <<>>) }

\* SpecParse: texts YYYY/MM/DD HH:MM followed by an offset text, and other texts.
YearTexts ==
    { <<"0", "0", "0", "0">>, <<"0", "0", "0", "1">>, <<"1", "9", "0", "0">>,
      <<"2", "0", "0", "0">>, <<"2", "0", "2", "1">>, <<"9", "9", "9", "9">> }

MonthTexts == { <<"0", "2">>, <<"0", "8">>, <<"1", "2">> }

DayTexts == { <<"0", "1">>, <<"2", "9">>, <<"3", "0">>, <<"3", "1">> }

HourTexts == { <<"0", "0">>, <<"0", "9">>, <<"2", "3">> }

MinuteTexts == { <<"0", "0">>, <<"5", "5">>, <<"5", "9">> }

OffsetTexts ==
    { <<>>, <<"+", "0", "1", "0", "0">>, <<"-", "0", "3", "3", "0">>,
      <<"+", "2", "3", "5", "9">>, <<"-", "2", "3", "5", "9">>,
      <<"+", "2", "4", "0", "0">>, <<"+", "0", "1", "6", "0">>,
      <<"+", "0", "0", "0", "0">>, <<"Z">>, <<"+", "0", "1", ":", "0", "0">>,
      <<"+", "0", "1", "0", "0", "3", "0">>,
      <<"+", "0", "1", "0", "0", "3", "0", ".", "5">>, <<" ">>,
      <<"+", "0", "1", "0", "0", " ">>, <<"+", "1", "0", "0">>,
      <<" ", "+", "0", "1", "0", "0">> }

DateTimeTexts ==
    { y \o <<"/">> \o mo \o <<"/">> \o d \o <<" ">> \o h \o <<":">> \o mi \o z :
        y \in YearTexts, mo \in MonthTexts, d \in DayTexts, h \in HourTexts,
        mi \in MinuteTexts, z \in OffsetTexts }

OtherTexts ==
    { <<"2", "0", "2", "1", "/", "0", "8", "/", "2", "1", " ", "0", "9", ":", "5", "5", "+", "0", "1", "0", "0">>,
      <<"2", "0", "2", "1", "/", "0", "8", "/", "2", "1", " ", "2", "2", ":", "0", "5">>,
      <<"n", "o", "t", " ", "a", " ", "d", "a", "t", "e">>, <<>>,
      <<"2", "0", "2", "1", "/", "1", "3", "/", "0", "1", " ", "1", "0", ":", "0", "0">>,
      <<"2", "0", "2", "1", "/", "0", "8", "/", "3", "2", " ", "1", "0", ":", "0", "0">>,
      <<"2", "0", "2", "1", "/", "0", "8", "/", "2", "1", " ", "2", "4", ":", "0", "0">>,
      <<"2", "0", "2", "1", "/", "0", "8", "/", "2", "1", " ", "1", "0", ":", "6", "0">>,
      <<"2", "0", "2", "1", "-", "0", "8", "-", "2", "1", " ", "1", "0", ":", "0", "0">>,
      <<"2", "0", "2", "1", "/", "0", "8", "/", "2", "1", "T", "0", "9", ":", "5", "5">>,
      <<"2", "0", "2", "1", "/", "8", "/", "2", "1", " ", "9", ":", "5">>,
      <<"2", "0", "2", "1", "/", "0", "8", "/", "2", "1", " ", " ", "0", "9", ":", "5", "5">>,
      <<"2", "0", "2", "1", "/", "0", "8", "/", "2", "1", "\t", "0", "9", ":", "5", "5">>,
      <<"2", "0", "2", "1", "/", "0", "8", "/", " ", "5", " ", "0", "9", ":", "5", "5">>,
      <<" ", "2", "0", "2", "1", "/", "0", "8", "/", "2", "1", " ", "0", "9", ":", "5", "5", " ">>,
      <<"2", "0", "2", "1", "/", "0", "8", "/", "2", "1", " ", "0", "9", ":", "5", "5", " ", "+", "0", "1", "0", "0">>,
      <<"2", "0", "2", "1", "/", "0", "4", "/", "3", "1", " ", "1", "0", ":", "0", "0">>,
      <<"1", "9", "6", "9", "/", "1", "2", "/", "3", "1", " ", "2", "3", ":", "5", "9">>,
      <<"2", "0", "2", "1", "/", "0", "8", "/", "2", "1", " ", "0", "9", ":", "5", "5", "z">>,
      <<"2", "0", "2", "1", "/", "0", "8", "/", "2", "1", " ", "0", "9", ":", "5", "5", "+", "0", "1", ":", "0", "0", ":", "3", "0">>,
      <<"2", "0", "2", "1", "/", "0", "8", "/", "2", "1", " ", "0", "9", ":", "5", "5", "+", "0", "1", "0", "0", ":", "3", "0">>,
      <<"2", "0", "2", "1", "/", "0", "8", "/", "2", "1", " ", "0", "9", ":", "5", "5", "+", "0", "1", ":", "0", "0", "3", "0">>,
      <<"2", "0", "2", "1", "/", "0", "8", "/", "2", "1", " ", "9", ":", "5", "5", "+", "0", "1", "0", "0">>,
      <<"2", "0", "2", "1", "0", "/", "0", "8", "/", "2", "1", " ", "0", "9", ":", "5", "5">>,
      <<"2", "0", "2", "1", "/", "0", "0", "/", "2", "1", " ", "0", "9", ":", "5", "5">>,
      <<"2", "0", "2", "1", "/", "0", "8", "/", "0", "0", " ", "0", "9", ":", "5", "5">>,
      <<"2", "0", "2", "1", "/", "0", "8", "/", "2", "1", " ", "0", "9", ":", "5", "5", "+", "0", "1", "0", "0", "0">>,
      <<"2", "0", "2", "1", "/", "0", "8", "/", "2", "1", " ", "0", "9", ":", "5", "5", "-", "0", "1", "0", "0", "3", "0", ".", "5">>,
      <<"9", "9", "9", "9", "/", "1", "2", "/", "3", "1", " ", "2", "3", ":", "5", "9", "-", "0", "0", ":", "0", "0", ":", "0", "0", ".", "0", "0", "0", "0", "0", "1">>,
      <<"0", "0", "0", "1", "/", "0", "1", "/", "0", "1", " ", "0", "0", ":", "0", "0", "+", "2", "3", "5", "9">>,
      <<"2", "0", "2", "1", "/", "0", "8", "/", "2", "1", " ", "0", "9", ":", "5", "5", "+", "9", "9", "5", "9">>,
      <<"2", "0", "2", "1", "/", "0", "8", "/", "2", "1", " ", "0", "8", ":", "5", "5">> }

SlashOffsets ==
    { <<>>, <<"+", "0", "1", "0", "0">>, <<"-", "0", "3", "3", "0">>,
      <<"+", "2", "4", "0", "0">>, <<"Z">>, <<"+", "0", "1", ":", "0", "0">>,
      <<" ">>, <<"+", "0", "1", "0", "0", " ">>,
      <<" ", "+", "0", "1", "0", "0">>, <<"n", "o", "p", "e">> }

\* Discord keeps month, day, hour and minutes in their Range; year is any int.
SlashArgs ==
    { Args(y, mo, d, h, mi, z) :
        y \in {-5, 0, 1, 1900, 2000, 2021, 9999, 10000}, mo \in {2, 8, 12},
        d \in {1, 29, 31}, h \in {0, 9, 23}, mi \in {0, 55}, z \in SlashOffsets }

(***************************************************************************)
(* The interaction model: any number of users run the commands and use     *)
(* the controls of the replies, in any order, while the clock advances.    *)
(***************************************************************************)
Init ==
    /\ messages = <<>>
    /\ now = Clock0
    /\ pads_year = FALSE      \* the sample dates are of 2021: no difference
    /\ cmd_text = <<>>
    /\ cmd_args = NoArgs
    /\ done = {}

Items(i, type) ==
    {k \in 1..Len(messages[i].view) : messages[i].view[k].type = type}

\* The slip of keeping the captured values in one place shared by all
\* messages: the item of the latest message that has one.
ItemOfLatest(ms, i, type) ==
    LET having == {j \in 1..Len(ms) :
                      \E k \in 1..Len(ms[j].view) : ms[j].view[k].type = type}
        last == CHOOSE j \in having : \A h \in having : h <= j
    IN  ms[last].view[CHOOSE k \in 1..Len(ms[last].view) :
                          ms[last].view[k].type = type]

\* The item whose callback an interaction with message i runs: the item of
\* that message itself.
ItemOf(ms, i, type) ==
    ms[i].view[CHOOSE k \in 1..Len(ms[i].view) : ms[i].view[k].type = type]

Send(m) ==
    /\ Len(messages) < MaxMessages
    /\ messages' = Append(messages, m)
    /\ UNCHANGED <<now, pads_year, cmd_text, cmd_args, done>>

\* A user sends t!mestamp followed by text.
Mestamp(user_datetime) ==
    Send(mestamp(Context(user_datetime), user_datetime, now, pads_year))

\* A user runs /timestamp.
Timestamp(a) ==
    Send(timestamp(SlashInteraction(a), a, now, pads_year))

\* A user picks one option of the dropdown of message i.
Select(i, value) ==
    /\ Items(i, "select") # {}
    /\ value \in {ItemOf(messages, i, "select").options[k].value :
                    k \in 1..Len(ItemOf(messages, i, "select").options)}
    /\ Send(TimestampDropdown_callback(
                ItemOf(messages, i, "select"),
                ComponentInteraction("select", i, <<value>>)))

\* A user presses the Show All! button of message i.
ShowAll(i) ==
    /\ Items(i, "button") # {}
    /\ Send(show_all_button_callback(
                ItemOf(messages, i, "button"),
                ComponentInteraction("button", i, <<>>)))

Tick ==
    /\ td_sub(now, Clock0).seconds < MaxTicks * TickSeconds
    /\ now' = timedelta(now.days, now.seconds + TickSeconds, 0)
    /\ UNCHANGED <<messages, pads_year, cmd_text, cmd_args, done>>

Next ==
    \/ \E t \in SampleTexts : Mestamp(t)
    \/ \E a \in SampleArgs : Timestamp(a)
    \/ \E i \in 1..Len(messages) :
          \E v \in {"t", "d", "D", "f", "F", "R"} : Select(i, v)
    \/ \E i \in 1..Len(messages) : ShowAll(i)
    \/ Tick

Spec == Init /\ [][Next]_vars

(***************************************************************************)
(* The parser model: one text, or one set of slash command arguments and   *)
(* the text they spell, handed once to each command that takes it.         *)
(***************************************************************************)
InitParse ==
    /\ messages = <<>>
    /\ now = Clock0
    /\ pads_year \in BOOLEAN
    /\ done = {}
    /\ \/ /\ cmd_args = NoArgs
          /\ cmd_text \in DateTimeTexts \cup OtherTexts
       \/ /\ cmd_args \in SlashArgs
          /\ cmd_text = constructed_date_str(cmd_args) \o cmd_args.offset

RunMestamp ==
    /\ "mestamp" \notin done
    /\ messages' = Append(messages,
                          mestamp(Context(cmd_text), cmd_text, now, pads_year))
    /\ done' = done \cup {"mestamp"}
    /\ UNCHANGED <<now, pads_year, cmd_text, cmd_args>>

RunTimestamp ==
    /\ "timestamp" \notin done
    /\ cmd_args.given
    /\ messages' = Append(messages,
                          timestamp(SlashInteraction(cmd_args), cmd_args, now,
                                    pads_year))
    /\ done' = done \cup {"timestamp"}
    /\ UNCHANGED <<now, pads_year, cmd_text, cmd_args>>

NextParse == RunMestamp \/ RunTimestamp

SpecParse == InitParse /\ [][NextParse]_vars

(***************************************************************************)
(* Reference definitions the properties are stated with.  They are written *)
(* from the grammar YYYY/MM/DD HH:MM[+-HHMM] and from the civil calendar,  *)
(* not from the parser above.                                              *)
(***************************************************************************)
FORMAT_CODES == <<"t", "d", "D", "f", "F", "R">>

\* s spells YYYY/MM/DD HH:MM in its first 16 characters.
HasDateTimeForm(s) ==
    /\ Len(s) >= 16
    /\ \A i \in {1, 2, 3, 4, 6, 7, 9, 10, 12, 13, 15, 16} : s[i] \in Digit
    /\ s[5] = "/" /\ s[8] = "/" /\ s[11] = " " /\ s[14] = ":"

\* s ends, after those 16 characters, in a sign and exactly four digits.
HasSignedOffset(s) ==
    /\ Len(s) = 21
    /\ s[17] \in {"+", "-"}
    /\ \A i \in 18..21 : s[i] \in Digit

Num(s, a, b) == IntOf(SubSeq(s, a, b))

RefLeap(y) == (y % 400 = 0) \/ (y % 4 = 0 /\ y % 100 # 0)

RefMonthLength(y, m) ==
    IF m \in {4, 6, 9, 11} THEN 30
    ELSE IF m = 2 THEN (IF RefLeap(y) THEN 29 ELSE 28)
    ELSE 31

\* The calendar fields of a text of the form name a minute that exists.
CalendarValid(s) ==
    /\ Num(s, 1, 4) >= 1
    /\ Num(s, 6, 7) \in 1..12
    /\ Num(s, 9, 10) >= 1
    /\ Num(s, 9, 10) <= RefMonthLength(Num(s, 1, 4), Num(s, 6, 7))
    /\ Num(s, 12, 13) <= 23
    /\ Num(s, 15, 16) <= 59

\* Days from 1970-01-01 to the civil date y-m-d.
RefDays(y, m, d) ==
    LET yy == IF m <= 2 THEN y - 1 ELSE y
        era == yy \div 400
        yoe == yy - era * 400
        mp == IF m > 2 THEN m - 3 ELSE m + 9
        doy == ((153 * mp + 2) \div 5) + d - 1
        doe == yoe * 365 + (yoe \div 4) - (yoe \div 100) + doy
    IN  era * 146097 + doe - 719468

\* The offset of a text with a signed four-digit offset, in seconds.
RefOffset(s) ==
    (IF s[17] = "-" THEN -1 ELSE 1) * (Num(s, 18, 19) * 3600 + Num(s, 20, 21) * 60)

\* The epoch seconds of the calendar fields of s read as UTC, minus off.
RefEpoch(s, off) ==
    LET secs == Num(s, 12, 13) * 3600 + Num(s, 15, 16) * 60 - off
    IN  [days |-> RefDays(Num(s, 1, 4), Num(s, 6, 7), Num(s, 9, 10))
                      + (secs \div 86400),
         secs |-> secs % 86400]

\* The text of the grammar: the form, a minute that exists, and either no
\* offset or a signed four-digit one.
InGrammar(s) ==
    /\ HasDateTimeForm(s)
    /\ CalendarValid(s)
    /\ Len(s) = 16 \/ HasSignedOffset(s)

Ids == 1..Len(messages)

IsSuccess(m) == m.kind = "selection"

Dropdown(m) == m.view[2]

Button(m) == m.view[1]

\* The message of the command that a reply goes back to.
RECURSIVE Origin(_)
Origin(i) ==
    IF messages[i].interaction.message = 0 THEN i
    ELSE Origin(messages[i].interaction.message)

\* What the command behind message i parsed.
OriginParse(i) ==
    LET c == messages[Origin(i)].interaction
    IN  IF c.type = "mestamp" THEN mestamp_parse(c.user_datetime)
        ELSE timestamp_parse(c.args)

\* The parts of a timestamp literal <t:E:C>.
StampEpoch(stamp) == SubSeq(stamp, 4, Len(stamp) - 3)

StampCode(stamp) == stamp[Len(stamp) - 1]

IsEpochText(e) ==
    /\ e # <<>>
    /\ IF e[1] = "-" THEN Len(e) > 1 /\ IsDigits(Tail(e)) ELSE IsDigits(e)

IsStamp(stamp) ==
    /\ Len(stamp) >= 7
    /\ SubSeq(stamp, 1, 3) = <<"<", "t", ":">>
    /\ IsEpochText(StampEpoch(stamp))
    /\ stamp[Len(stamp) - 2] = ":"
    /\ StampCode(stamp) \in {FORMAT_CODES[k] : k \in 1..6}
    /\ stamp[Len(stamp)] = ">"

\* The literal in the title of a single-format reply, and its escaped copy.
TitleStamp(m) == SubSeq(m.embed.title, 3, Len(m.embed.title) - 2)

DescriptionTail(m) == SubSeq(m.embed.description, 3, Len(m.embed.description))

(***************************************************************************)
(* C1.                                                                     *)
(***************************************************************************)
MestampReplies == {i \in Ids : messages[i].interaction.type = "mestamp"}

SucceedsWith(m, flag, epoch) ==
    /\ IsSuccess(m)
    /\ Dropdown(m).utc_offset_used = flag
    /\ Dropdown(m).epoch_time = epoch
    /\ Button(m).epoch_time = epoch

\* C1 as stated: mestamp given YYYY/MM/DD HH:MM and any sign followed by four
\* digits, the calendar fields valid, sends the success reply with
\* utc_offset_used = TRUE and the epoch of the fields read as UTC minus the
\* offset.
C1_Original ==
    \A i \in MestampReplies :
        LET s == messages[i].interaction.user_datetime
        IN  (HasDateTimeForm(s) /\ HasSignedOffset(s) /\ CalendarValid(s))
            => SucceedsWith(messages[i], TRUE, RefEpoch(s, RefOffset(s)))

\* C1 amended: the same, for an offset whose hours are at most 23 and whose
\* minutes are at most 59.
C1_OffsetParse ==
    \A i \in MestampReplies :
        LET s == messages[i].interaction.user_datetime
        IN  (/\ HasDateTimeForm(s) /\ HasSignedOffset(s) /\ CalendarValid(s)
             /\ Num(s, 18, 19) <= 23 /\ Num(s, 20, 21) <= 59)
            => SucceedsWith(messages[i], TRUE, RefEpoch(s, RefOffset(s)))

\* 2021/08/21 09:55+0100 was answered, with the epoch 1629536100.
C1_Witness ==
    \E i \in MestampReplies :
        /\ messages[i].interaction.user_datetime
               = <<"2", "0", "2", "1", "/", "0", "8", "/", "2", "1", " ", "0", "9", ":", "5", "5", "+", "0", "1", "0", "0">>
        /\ IsSuccess(messages[i])
        /\ Dropdown(messages[i]).utc_offset_used
        /\ int_str(Dropdown(messages[i]).epoch_time)
               = <<"1", "6", "2", "9", "5", "3", "6", "1", "0", "0">>

(***************************************************************************)
(* C2.                                                                     *)
(***************************************************************************)
\* C2: mestamp given YYYY/MM/DD HH:MM with no offset and valid calendar fields
\* sends the success reply with utc_offset_used = FALSE, a datetime pinned to
\* UTC, and the epoch of the fields read as UTC.
C2_NaiveParse ==
    \A i \in MestampReplies :
        LET s == messages[i].interaction.user_datetime
        IN  (HasDateTimeForm(s) /\ Len(s) = 16 /\ CalendarValid(s))
            => /\ SucceedsWith(messages[i], FALSE, RefEpoch(s, 0))
               /\ Dropdown(messages[i]).time_obj.tzinfo = Utc

\* 2021/08/21 22:05 was answered, with the epoch 1629583500.
C2_Witness ==
    \E i \in MestampReplies :
        /\ messages[i].interaction.user_datetime = <<"2", "0", "2", "1", "/", "0", "8", "/", "2", "1", " ", "2", "2", ":", "0", "5">>
        /\ IsSuccess(messages[i])
        /\ ~Dropdown(messages[i]).utc_offset_used
        /\ int_str(Dropdown(messages[i]).epoch_time)
               = <<"1", "6", "2", "9", "5", "8", "3", "5", "0", "0">>

(***************************************************************************)
(* C3.                                                                     *)
(***************************************************************************)
\* The text a command hands to strptime.
ParsedText(c) ==
    IF c.type = "mestamp" THEN strip(c.user_datetime)
    ELSE constructed_date_str(c.args) \o c.args.offset

\* C3 as stated: a text outside the grammar YYYY/MM/DD HH:MM[+-HHMM] is
\* answered with the error reply, which carries no epoch.
C3_Original ==
    \A i \in Ids :
        (messages[i].interaction.message = 0
         /\ ~InGrammar(ParsedText(messages[i].interaction)))
        => messages[i].kind = "error"

(***************************************************************************)
(* C9.                                                                     *)
(***************************************************************************)
\* date.fromordinal
ord2ymd(ordinal) ==
    LET n == ordinal - 1
        n400 == n \div 146097
        r400 == n % 146097
        n100 == r400 \div 36524
        r100 == r400 % 36524
        n4 == r100 \div 1461
        r4 == r100 % 1461
        n1 == r4 \div 365
        r1 == r4 % 365
        year == n400 * 400 + n100 * 100 + n4 * 4 + n1 + 1
    IN  IF n1 = 4 \/ n100 = 4
        THEN [year |-> year - 1, month |-> 12, day |-> 31]
        ELSE LET month == CHOOSE mo \in 1..12 :
                              /\ days_before_month(year, mo) <= r1
                              /\ mo = 12 \/ days_before_month(year, mo + 1) > r1
             IN  [year |-> year, month |-> month,
                  day |-> r1 - days_before_month(year, month) + 1]

\* datetime.fromtimestamp(epoch, tz): the calendar date and time of the epoch
\* seconds in the offset tz.
fromtimestamp(epoch, tz) ==
    LET local == timedelta(epoch.days, epoch.secs + tz.seconds, tz.microseconds)
        date == ord2ymd(local.days + ymd2ord(1970, 1, 1))
    IN  [year |-> date.year, month |-> date.month, day |-> date.day,
         hour |-> local.seconds \div 3600,
         minute |-> (local.seconds % 3600) \div 60,
         second |-> local.seconds % 60,
         microsecond |-> local.microseconds]

RoundTrips(time_obj) ==
    LET back == fromtimestamp(int_timestamp(time_obj), time_obj.tzinfo)
    IN  /\ back.year = time_obj.year /\ back.month = time_obj.month
        /\ back.day = time_obj.day /\ back.hour = time_obj.hour
        /\ back.minute = time_obj.minute
        /\ back.second = 0 /\ back.microsecond = 0

\* C9 as stated: the datetime of every success reply is recovered from its
\* epoch seconds, converted back in the datetime's own offset.
C9_Original ==
    \A i \in Ids :
        IsSuccess(messages[i]) => RoundTrips(Dropdown(messages[i]).time_obj)

\* The same for the offsets of whole seconds: what is left of C9 once the
\* offsets with a fraction of a second are set aside.
C9_WholeSeconds ==
    \A i \in Ids :
        (IsSuccess(messages[i])
         /\ Dropdown(messages[i]).time_obj.tzinfo.microseconds = 0)
        => RoundTrips(Dropdown(messages[i]).time_obj)

(***************************************************************************)
(* C10.                                                                    *)
(***************************************************************************)
SameOutcome(m1, m2) ==
    /\ m1.kind = m2.kind
    /\ IsSuccess(m1) =>
          /\ Dropdown(m1).epoch_time = Dropdown(m2).epoch_time
          /\ Dropdown(m1).utc_offset_used = Dropdown(m2).utc_offset_used

\* C10 as stated: for a year in 1..9999 and any offset text, timestamp and
\* mestamp given the text timestamp builds reach the same outcome.
C10_Original ==
    (done = {"mestamp", "timestamp"} /\ cmd_args.year \in 1..9999)
    => SameOutcome(messages[1], messages[2])

\* The same for the offset texts that do not end in whitespace.
C10_NoTrailingSpace ==
    (/\ done = {"mestamp", "timestamp"} /\ cmd_args.year \in 1..9999
     /\ rstrip(cmd_args.offset) = cmd_args.offset)
    => SameOutcome(messages[1], messages[2])

(***************************************************************************)
(* C4.                                                                     *)
(***************************************************************************)
Parent(i) == messages[i].interaction.message

\* The decimal text of the epoch seconds of what the command behind message i
\* parsed.
OriginEpochText(i) == int_str(int_timestamp(OriginParse(i).time_obj))

\* C4: the literal of a single-format reply is <t:E:C> with E the epoch
\* seconds of the datetime parsed for the message that carried the dropdown
\* and C the selected value, followed in the description by its escaped copy;
\* the show-all reply has one field per code, in order, each the literal and
\* its escaped copy, all with that E.
C4_Literals ==
    \A i \in Ids :
        LET m == messages[i]
        IN  /\ m.kind = "single" =>
                  /\ IsStamp(TitleStamp(m))
                  /\ StampCode(TitleStamp(m)) = m.interaction.values[1]
                  /\ StampEpoch(TitleStamp(m)) = OriginEpochText(i)
                  /\ DescriptionTail(m) = <<"\\">> \o TitleStamp(m)
            /\ m.kind = "all" =>
                  /\ Len(m.embed.fields) = 6
                  /\ \A k \in 1..Len(m.embed.fields) :
                        /\ IsStamp(m.embed.fields[k].name)
                        /\ StampCode(m.embed.fields[k].name) = FORMAT_CODES[k]
                        /\ StampEpoch(m.embed.fields[k].name) = OriginEpochText(i)
                        /\ m.embed.fields[k].value
                               = <<"\\">> \o m.embed.fields[k].name

\* <t:1629536100:t> was sent as a single-format reply, and a show-all reply
\* was sent.
C4_Witness ==
    /\ \E i \in Ids :
          /\ messages[i].kind = "single"
          /\ TitleStamp(messages[i]) = <<"<", "t", ":", "1", "6", "2", "9", "5", "3", "6", "1", "0", "0", ":", "t", ">">>
    /\ \E i \in Ids : messages[i].kind = "all"

(***************************************************************************)
(* C5.                                                                     *)
(***************************************************************************)
\* C5: the values of the options of every dropdown, and the codes of the
\* fields of every show-all reply, are t, d, D, f, F, R in this order, whatever
\* the datetime and the clock.
C5_SixCodes ==
    \A i \in Ids :
        LET m == messages[i]
        IN  /\ IsSuccess(m) =>
                  /\ Len(Dropdown(m).options) = 6
                  /\ \A k \in 1..Len(Dropdown(m).options) :
                        Dropdown(m).options[k].value = FORMAT_CODES[k]
            /\ m.kind = "all" =>
                  /\ Len(m.embed.fields) = 6
                  /\ \A k \in 1..Len(m.embed.fields) :
                        StampCode(m.embed.fields[k].name) = FORMAT_CODES[k]

\* Two dropdowns for different instants and a show-all reply were sent.
C5_Witness ==
    /\ \E i, j \in Ids :
          /\ IsSuccess(messages[i]) /\ IsSuccess(messages[j])
          /\ Dropdown(messages[i]).epoch_time # Dropdown(messages[j]).epoch_time
    /\ \E i \in Ids : messages[i].kind = "all"

(***************************************************************************)
(* C6.                                                                     *)
(***************************************************************************)
HasCallback(m) == \E k \in 1..Len(m.view) : m.view[k].type \in {"button", "select"}

RootsFollowParse ==
    \A i \in Ids :
        Parent(i) = 0 =>
            /\ messages[i].kind \in {"selection", "error"}
            /\ messages[i].kind = "selection" <=> OriginParse(i).ok

\* C6 as stated: a reply to a control is a single-format or a show-all reply
\* to a format selection message; the single-format, show-all and error
\* replies are final.
C6_Original ==
    /\ RootsFollowParse
    /\ \A i \in Ids :
          Parent(i) # 0 =>
              /\ messages[Parent(i)].kind = "selection"
              /\ messages[i].kind \in {"single", "all"}

\* C6 amended: as stated, except that the single-format reply carries the
\* Show All! button, so that a show-all reply may follow it; the show-all and
\* error replies carry no control with a callback, and the single-format reply
\* carries no dropdown.
C6_Transitions ==
    /\ RootsFollowParse
    /\ \A i \in Ids :
          /\ Parent(i) # 0 =>
                /\ Parent(i) < i
                /\ <<messages[Parent(i)].kind, messages[i].kind>>
                       \in { <<"selection", "single">>, <<"selection", "all">>,
                             <<"single", "all">> }
          /\ messages[i].kind \in {"all", "error"} => ~HasCallback(messages[i])
          /\ messages[i].kind = "single" =>
                \A k \in 1..Len(messages[i].view) :
                    messages[i].view[k].type # "select"

\* A show-all reply followed a single-format reply.
C6_Witness ==
    \E i \in Ids :
        /\ messages[i].kind = "all"
        /\ Parent(i) # 0
        /\ messages[Parent(i)].kind = "single"

(***************************************************************************)
(* C7.                                                                     *)
(***************************************************************************)
OffsetSuppliedText ==
    "make sure your UTC offset (+-HHMM *note no colon*) is correct. "

\* C7: whatever else was sent in between, a reply to a dropdown or a button
\* carries the epoch of the datetime parsed by the command behind the
\* control's message, and the single-format reply words its guidance for a
\* supplied offset exactly when that parse had utc_offset_used = TRUE.
C7_CapturedValues ==
    \A i \in Ids :
        Parent(i) # 0 =>
            LET m == messages[i]
                o == OriginParse(i)
            IN  /\ o.ok
                /\ m.kind = "single" =>
                      /\ StampEpoch(TitleStamp(m)) = OriginEpochText(i)
                      /\ Button(m).epoch_time = int_timestamp(o.time_obj)
                      /\ (m.embed.fields[1].value[2] = OffsetSuppliedText)
                             <=> o.utc_offset_used
                /\ m.kind = "all" =>
                      \A k \in 1..Len(m.embed.fields) :
                          StampEpoch(m.embed.fields[k].name) = OriginEpochText(i)

\* A control of an earlier message was used after a later command, one with
\* the other offset flag, had been answered.
C7_Witness ==
    \E i, j, k \in Ids :
        /\ i < j /\ j < k
        /\ Parent(i) = 0 /\ Parent(j) = 0 /\ Parent(k) = i
        /\ IsSuccess(messages[j])
        /\ Dropdown(messages[i]).utc_offset_used
               # Dropdown(messages[j]).utc_offset_used
        /\ messages[k].kind = "single"

(***************************************************************************)
(* C8.                                                                     *)
(***************************************************************************)
\* C8: two dropdowns built for the same datetime, at whatever clock values,
\* have the same epoch and the same labels and values in their five fixed
\* options; their sixth option has the value R.
C8_FixedLabels ==
    \A i, j \in Ids :
        (/\ IsSuccess(messages[i]) /\ IsSuccess(messages[j])
         /\ Dropdown(messages[i]).time_obj = Dropdown(messages[j]).time_obj)
        => /\ Dropdown(messages[i]).epoch_time = Dropdown(messages[j]).epoch_time
           /\ \A k \in 1..5 :
                 Dropdown(messages[i]).options[k] = Dropdown(messages[j]).options[k]
           /\ Dropdown(messages[i]).options[6].value = "R"
           /\ Dropdown(messages[j]).options[6].value = "R"

\* Two dropdowns for the same datetime were built at different clock values
\* and differ in the label of R.
C8_Witness ==
    \E i, j \in Ids :
        /\ IsSuccess(messages[i]) /\ IsSuccess(messages[j])
        /\ Dropdown(messages[i]).time_obj = Dropdown(messages[j]).time_obj
        /\ Dropdown(messages[i]).options[6].label
               # Dropdown(messages[j]).options[6].label

====
